---------------------------- MODULE Spec2Model ----------------------------
(***************************************************************************)
(* Stream supervision core of iptv-re-streamer (class StreamManager of     *)
(* streamManager.js, driven by the routes of server.js).                   *)
(*                                                                         *)
(* The supervisor is a single-threaded event loop: every handler runs to   *)
(* completion, and handlers interleave only at timers, subprocess events   *)
(* and promise continuations.  One action below is one such handler.       *)
(*                                                                         *)
(* Handles are opaque in the source (a ChildProcess, a Timeout), and every *)
(* callback closes over the stream id only, so the model keeps, per id,    *)
(* what is registered in each table and how many unregistered subprocesses *)
(* timers and continuations are still in flight.                           *)
(***************************************************************************)
EXTENDS Integers, FiniteSets, Sequences, TLC

(***************************************************************************)
(* Bounds of the model.                                                    *)
(***************************************************************************)
\* value given to MAX_RECONNECT_ATTEMPTS (the source's default is 10)
MaxReconnectAttempts == 2
\* callbacks in flight per id: start continuations awaiting the playlist,
\* deferred starts of restartStream, source probes of the reconnect policy
\* and reconnect timers whose handle was overwritten in the table
MaxInFlight == 2
\* subprocesses of one id outside the process table: live ones whose handle
\* was dropped, and ones stopStream signalled whose exit is outstanding
MaxLoose == 1
\* errors counted per record (diagnostics.errorCount saturates here)
MaxErrors == 1

\* largest height probed in SpecResolution
MaxHeight == 2160

\* reconnect attempts 0..MaxAttempt are scheduled in SpecBackoff
MaxAttempt == 9

\* errors recorded on one record in SpecErrors
MaxRecorded == 12

\* #EXT-X-STREAM-INF tags of a master playlist in SpecPlaylist
MaxVariants == 2
\* bandwidths declared by the tags, in Mbit/s
MaxBandwidth == 2

\* .ts files in one segment directory in SpecCleanup
MaxFilesOnDisk == 17

\* this.hlsListSize with HLS_LIST_SIZE unset
hlsListSize == 15

\* segment files in the directory of a stream
MaxSegmentFiles == 2

\* largest age in s of the newest segment at a check in SpecSegmentAge
MaxAgeSeen == 35

\* this.hlsSegmentTime with HLS_SEGMENT_TIME unset, in s
hlsSegmentTime == 4
\* the factor of this.maxSegmentAge with MAX_SEGMENT_AGE unset
maxSegmentAgeFactor == 3
\* the threshold checkStreamSegmentHealth compares the age with when
\* MAX_SEGMENT_AGE is unset, in s
checkedMaxSegmentAge == 30

\* `slice(-10)` of _recordError: the length errors.recent is cut to
RecentCap == 10

Ids == {"s1"}

VARIABLES
  streams,              \* this.streams: id -> record, NoStream when absent
  processes,            \* this.processes: "none", "live" or "dead" handle
  unregistered,         \* live subprocesses no longer in this.processes
  terminating,          \* subprocesses sent SIGTERM, exit event outstanding
  reconnectAttempts,    \* this.reconnectAttempts (undefined read as 0)
  reconnectTimers,      \* this.reconnectTimers: "none", "pending", "fired"
  strayTimers,          \* pending reconnect timers not in the table
  probes,               \* testSourceUrl promises of the reconnect policy
  starts,               \* startStream continuations awaiting the playlist
  restartTimers,        \* pending setTimeout of restartStream
  monitors,             \* this.monitors
  screenshotTimers,     \* this.screenshotTimers
  segmentHealthChecks,  \* this.segmentHealthChecks
  hlsDir,               \* data/hls/<id>: "none", "empty" or "segments"
  configFile,           \* data/streams.json: the records as last saved
  launches,             \* history: subprocesses launched for the id
  failedExits,          \* history: relaunched subprocesses that exited
  failedProbes,         \* history: reconnect probes that failed
  errorsRecent,         \* errors.recent of one record
  errorsRecorded,       \* history: every error recorded on that record
  reconnectDelay,       \* this.reconnectDelay, in ms
  maxBackoffDelay,      \* this.maxBackoffDelay, in ms
  delays,               \* history: delay of attempt 0, 1, ... as num/den ms
  height,               \* height of the video stream that was probed
  label,                \* streamInfo.resolution, "none" while unset
  labelledBy,           \* the code path that computed label
  playlist,             \* what a GET of the id's source URL answers
  selectedVariantInfo,  \* this.selectedVariantInfo
  url,                  \* stream.url: 0 the source URL, i the i-th variant's
  selectedResolution,   \* stream.selectedResolution as a height, 0 unset
  streamInfoResolution, \* stream.streamInfo.resolution, "none" while unset
  latestSegmentAge,     \* diagnostics.latestSegmentAge in s, -1 while unset
  streamInfo,           \* stream.streamInfo: how each field came to its value
  segmentFiles,         \* .ts files in data/hls/<id>
  screenshot,           \* data/screenshots/<id>.jpg exists
  removedSegments,      \* history: .ts files unlinked by the last cleanup
  storedUrl,            \* stream.url: which of the URLs the user entered,
                        \* and whether it is a variant resolved from it
  analysed,             \* the URLs of the pending calls of analyzeHlsPlaylist
  updatedUrl,           \* history: how many URLs updateStream has stored
  stoppedInGrace        \* history: stopStream ran while a deferred start of
                        \* restartStream was pending, and no user start since

\* the tables of the supervisor and what is in flight
core == <<streams, processes, unregistered, terminating, reconnectAttempts,
          reconnectTimers, strayTimers, probes, starts, restartTimers,
          monitors, screenshotTimers, segmentHealthChecks, hlsDir,
          configFile>>

\* the error list of one record, followed on its own (SpecErrors)
errs == <<errorsRecent, errorsRecorded>>

\* the backoff of the reconnect policy, followed on its own (SpecBackoff)
backoff == <<reconnectDelay, maxBackoffDelay, delays>>

\* the resolution label of one stream, followed on its own (SpecResolution)
resolution == <<height, label, labelledBy>>

\* what the periodic analyses store, each followed on its own
edits == <<storedUrl, analysed, updatedUrl>>
aux == <<latestSegmentAge, streamInfo, segmentFiles, screenshot,
         removedSegments, edits, stoppedInGrace>>

\* the variant selection of startStream (SpecPlaylist, SpecVariants)
variants == <<playlist, selectedVariantInfo, url, selectedResolution,
              streamInfoResolution>>

vars == <<streams, processes, unregistered, terminating, reconnectAttempts,
          reconnectTimers, strayTimers, probes, starts, restartTimers,
          monitors, screenshotTimers, segmentHealthChecks, hlsDir,
          configFile, launches, failedExits, failedProbes, errs, backoff,
          height, label, labelledBy, variants, aux>>

Statuses == {"stopped", "starting", "running", "error"}

NoStream ==
  [status |-> "none", health |-> "none", healthCheckStatus |-> "none",
   errorCount |-> 0, lastErrorType |-> "null"]

\* the record built by addStream and importConfig
NewStream ==
  [status |-> "stopped", health |-> "unknown", healthCheckStatus |-> "null",
   errorCount |-> 0, lastErrorType |-> "null"]

\* kinds of start continuation: whether the record object it captured is
\* still the one in this.streams
StartKinds == {"fresh", "stale"}

NoStarts == [k \in StartKinds |-> 0]

\* the supervisor's state as one value, so that handlers compose
State ==
  [streams |-> streams, processes |-> processes,
   unregistered |-> unregistered, terminating |-> terminating,
   reconnectAttempts |-> reconnectAttempts,
   reconnectTimers |-> reconnectTimers, strayTimers |-> strayTimers,
   probes |-> probes, starts |-> starts, restartTimers |-> restartTimers,
   monitors |-> monitors, screenshotTimers |-> screenshotTimers,
   segmentHealthChecks |-> segmentHealthChecks, hlsDir |-> hlsDir,
   configFile |-> configFile]

Commit(s) ==
  /\ streams' = s.streams
  /\ processes' = s.processes
  /\ unregistered' = s.unregistered
  /\ terminating' = s.terminating
  /\ reconnectAttempts' = s.reconnectAttempts
  /\ reconnectTimers' = s.reconnectTimers
  /\ strayTimers' = s.strayTimers
  /\ probes' = s.probes
  /\ starts' = s.starts
  /\ restartTimers' = s.restartTimers
  /\ monitors' = s.monitors
  /\ screenshotTimers' = s.screenshotTimers
  /\ segmentHealthChecks' = s.segmentHealthChecks
  /\ hlsDir' = s.hlsDir
  /\ configFile' = s.configFile

\* the counters of s stay inside the bounds of the model
InBounds(s) ==
  \A id \in Ids :
    /\ s.unregistered[id] + s.terminating[id] <= MaxLoose
    /\ s.starts[id]["fresh"] + s.starts[id]["stale"] + s.restartTimers[id]
         + s.probes[id] + s.strayTimers[id] <= MaxInFlight

Exists(s, id) == s.streams[id].status # "none"

(***************************************************************************)
(* Helpers of StreamManager.                                               *)
(***************************************************************************)
\* saveConfig: the whole mapping is written to the file
saveConfig(s) == [s EXCEPT !.configFile = s.streams]

\* _recordError with `slice(0, 10)` in place of `slice(-10)`
pushRecentKeepsOldest(recent, entry) ==
  LET r == Append(recent, entry)
  IN IF Len(r) > RecentCap THEN SubSeq(r, 1, RecentCap) ELSE r

\* _recordError on errors.recent: push, then keep the last ten
pushRecent(recent, entry) ==
  LET r == Append(recent, entry)
  IN IF Len(r) > RecentCap
     THEN SubSeq(r, Len(r) - RecentCap + 1, Len(r))
     ELSE r

\* _recordError: counts one error on the record registered under id
RecordError(s, id, errorType) ==
  IF ~Exists(s, id) THEN s
  ELSE saveConfig([s EXCEPT !.streams[id].errorCount =
                              IF @ < MaxErrors THEN @ + 1 ELSE @,
                            !.streams[id].lastErrorType = errorType])

\* _clearScreenshotTimer, _clearSegmentHealthCheck and _clearMonitoring
ClearTimers(s, id) ==
  [s EXCEPT !.screenshotTimers[id] = FALSE,
            !.segmentHealthChecks[id] = FALSE,
            !.monitors[id] = FALSE]

\* the continuations of id hold a record that left this.streams
Orphan(s, id) ==
  [s EXCEPT !.starts[id] =
     [fresh |-> 0, stale |-> @["stale"] + @["fresh"]]]

\* `delete this.processes[id]` without a signal: a live handle is leaked
DropHandle(s, id) ==
  [s EXCEPT !.processes[id] = "none",
            !.unregistered[id] = IF s.processes[id] = "live" THEN @ + 1 ELSE @]


(***************************************************************************)
(* startStream, up to the call of analyzeHlsPlaylist.                      *)
(***************************************************************************)
\* what startStream returns: false without a record, true for a running
\* stream, and otherwise the promise of its continuation
startStreamReturns(s, id) ==
  IF ~Exists(s, id) THEN "false"
  ELSE IF s.streams[id].status = "running" THEN "true"
  ELSE "promise"

\* startStream without its early return for a running stream
startStreamAgain(s, id) ==
  IF ~Exists(s, id) THEN s
  ELSE LET a == saveConfig([s EXCEPT !.streams[id].status = "starting"])
       IN [a EXCEPT !.hlsDir[id] = IF @ = "none" THEN "empty" ELSE @,
                    !.reconnectAttempts[id] = 0,
                    !.reconnectTimers[id] = "none",
                    !.starts[id]["fresh"] = @ + 1]

startStream(s, id) ==
  IF ~Exists(s, id) THEN s
  ELSE IF s.streams[id].status = "running" THEN s
  ELSE LET a == saveConfig([s EXCEPT !.streams[id].status = "starting"])
       IN [a EXCEPT !.hlsDir[id] = IF @ = "none" THEN "empty" ELSE @,
                    !.reconnectAttempts[id] = 0,
                    !.reconnectTimers[id] = "none",
                    !.starts[id]["fresh"] = @ + 1]

\* stopStream without its early return for a stream already stopped
stopStreamNoEarlyReturn(s, id) ==
  IF ~Exists(s, id) THEN s
  ELSE LET k == [s EXCEPT
                   !.terminating[id] =
                      IF s.processes[id] = "live" THEN @ + 1 ELSE @,
                   !.processes[id] = "none",
                   !.reconnectTimers[id] = "none"]
       IN saveConfig([ClearTimers(k, id) EXCEPT
                        !.streams[id].status = "stopped",
                        !.streams[id].health = "unknown"])

\* stopStream without its call of _clearMonitoring
stopStreamKeepsMonitor(s, id) ==
  IF ~Exists(s, id) THEN s
  ELSE IF s.streams[id].status = "stopped" THEN s
  ELSE LET k == [s EXCEPT
                   !.terminating[id] =
                      IF s.processes[id] = "live" THEN @ + 1 ELSE @,
                   !.processes[id] = "none",
                   !.reconnectTimers[id] = "none",
                   !.screenshotTimers[id] = FALSE,
                   !.segmentHealthChecks[id] = FALSE]
       IN saveConfig([k EXCEPT !.streams[id].status = "stopped",
                               !.streams[id].health = "unknown"])

(***************************************************************************)
(* stopStream.  Its result is Exists(s, id): kill and the clear functions  *)
(* do not throw on the handles the supervisor stores.                      *)
(***************************************************************************)
stopStream(s, id) ==
  IF ~Exists(s, id) THEN s
  ELSE IF s.streams[id].status = "stopped" THEN s
  ELSE LET k == [s EXCEPT
                   !.terminating[id] =
                      IF s.processes[id] = "live" THEN @ + 1 ELSE @,
                   !.processes[id] = "none",
                   !.reconnectTimers[id] = "none"]
       IN saveConfig([ClearTimers(k, id) EXCEPT
                        !.streams[id].status = "stopped",
                        !.streams[id].health = "unknown"])

\* restartStream: stop, then a start deferred by one second
restartStream(s, id) ==
  IF ~Exists(s, id) THEN s
  ELSE [stopStream(s, id) EXCEPT !.restartTimers[id] = @ + 1]

\* updateStream: a running stream is stopped, changed and started again
updateStream(s, id) ==
  IF ~Exists(s, id) THEN s
  ELSE saveConfig(IF s.streams[id].status = "running"
                  THEN startStream(stopStream(s, id), id)
                  ELSE s)

\* deleteStream
deleteStream(s, id) ==
  IF ~Exists(s, id) THEN s
  ELSE LET a == IF s.streams[id].status = "running"
                THEN stopStream(s, id) ELSE s
           b == [ClearTimers(a, id) EXCEPT !.hlsDir[id] = "none",
                                           !.streams[id] = NoStream]
       IN saveConfig(DropHandle(Orphan(b, id), id))

\* the label with '360p' for every height below 480
formattedResolutionNoFallback(h) ==
  IF h >= 1080 THEN "1080p"
  ELSE IF h >= 720 THEN "720p"
  ELSE IF h >= 480 THEN "480p"
  ELSE "360p"

\* formattedResolution of analyzeHlsStreamInfo and of startStream
formattedResolution(h) ==
  IF h >= 1080 THEN "1080p"
  ELSE IF h >= 720 THEN "720p"
  ELSE IF h >= 480 THEN "480p"
  ELSE IF h >= 360 THEN "360p"
  ELSE ToString(h) \o "p"

RECURSIVE Pow(_, _)
Pow(b, n) == IF n = 0 THEN 1 ELSE b * Pow(b, n - 1)

\* the delay of handleReconnect without Math.min
backoffDelayUncapped(baseDelay, maxDelay, attempt) ==
  [num |-> baseDelay * Pow(3, attempt), den |-> Pow(2, attempt)]

\* Math.min(baseDelay * Math.pow(1.5, attempt), this.maxBackoffDelay), as
\* the fraction num/den of milliseconds (1.5^attempt is 3^attempt/2^attempt,
\* which the doubles of the source hold exactly)
backoffDelay(baseDelay, maxDelay, attempt) ==
  LET num == baseDelay * Pow(3, attempt)
      den == Pow(2, attempt)
  IN IF num <= maxDelay * den THEN [num |-> num, den |-> den]
     ELSE [num |-> maxDelay, den |-> 1]

\* handleReconnect that schedules the timer without counting the attempt
handleReconnectUncounted(s, id) ==
  IF ~Exists(s, id) THEN s
  ELSE IF s.reconnectAttempts[id] >= MaxReconnectAttempts
  THEN saveConfig([s EXCEPT
         !.streams[id].status = "error",
         !.streams[id].health = "failed",
         !.streams[id].healthCheckStatus = "max_reconnect_exceeded"])
  ELSE [saveConfig(s) EXCEPT
         !.strayTimers[id] =
            IF s.reconnectTimers[id] = "pending" THEN @ + 1 ELSE @,
         !.reconnectTimers[id] = "pending"]

(***************************************************************************)
(* handleReconnect: the terminal classification, or one more timer.  The   *)
(* new handle overwrites the table entry; a timer that was pending there   *)
(* stays pending.                                                          *)
(***************************************************************************)
handleReconnect(s, id) ==
  IF ~Exists(s, id) THEN s
  ELSE IF s.reconnectAttempts[id] >= MaxReconnectAttempts
  THEN saveConfig([s EXCEPT
         !.streams[id].status = "error",
         !.streams[id].health = "failed",
         !.streams[id].healthCheckStatus = "max_reconnect_exceeded"])
  ELSE [saveConfig(s) EXCEPT
         !.reconnectAttempts[id] = @ + 1,
         !.strayTimers[id] =
            IF s.reconnectTimers[id] = "pending" THEN @ + 1 ELSE @,
         !.reconnectTimers[id] = "pending"]

\* the 'exit' listener without its test of the record and its status
onExitUnguarded(s, id) ==
  LET a == RecordError(s, id, "ffmpeg")
      b == [a EXCEPT !.streams[id].status = "error"]
  IN handleReconnect(DropHandle(b, id), id)

\* the 'exit' listener registered by startStream for a subprocess of id
onExit(s, id) ==
  IF Exists(s, id) /\ s.streams[id].status = "running"
  THEN LET a == RecordError(s, id, "ffmpeg")
           b == [a EXCEPT !.streams[id].status = "error"]
       IN handleReconnect(DropHandle(b, id), id)
  ELSE s

\* _updateStreamHealth(id) for a running stream with n entries of
\* errors.recent in the last five minutes
genericHealth(n) ==
  IF n = 0 THEN "good" ELSE IF n <= 2 THEN "degraded" ELSE "poor"

\* what a chunk of stderr may contain: a word of the first test ('Error',
\* 'error' or 'failed') and the phrases of the three specific categories
Phrases == {"error", "Connection refused", "404", "Invalid data"}

\* the 'data' listener of stderr that treats a connection error as an exit
onStderrReconnects(s, id, output) ==
  IF "error" \notin output THEN s
  ELSE IF "Connection refused" \in output
  THEN handleReconnect(RecordError(s, id, "network"), id)
  ELSE IF "404" \in output THEN RecordError(s, id, "source")
  ELSE IF "Invalid data" \in output THEN RecordError(s, id, "format")
  ELSE RecordError(s, id, "ffmpeg")

\* the 'data' listener of stderr registered by startStream; output is the
\* set of phrases the chunk contains
onStderr(s, id, output) ==
  IF "error" \notin output THEN s
  ELSE IF "Connection refused" \in output THEN RecordError(s, id, "network")
  ELSE IF "404" \in output THEN RecordError(s, id, "source")
  ELSE IF "Invalid data" \in output THEN RecordError(s, id, "format")
  ELSE RecordError(s, id, "ffmpeg")

\* testSourceUrl up to the spawn of ffprobe; without a record it resolves
\* false at once, and the callback's handleReconnect returns at its guard
testSourceUrl(s, id) ==
  IF ~Exists(s, id) THEN s
  ELSE [saveConfig(s) EXCEPT !.probes[id] = @ + 1]

\* the 'close' listener or the timeout of testSourceUrl: it writes the
\* diagnostics of the record it captured and saves
probeDone(s, id) == saveConfig([s EXCEPT !.probes[id] = @ - 1])

(***************************************************************************)
(* The continuation of startStream after analyzeHlsPlaylist resolved.  It  *)
(* writes the status into the record it captured: for a stale kind that    *)
(* record is no longer the one in this.streams.                            *)
(***************************************************************************)
launched(s, id, kind) ==
  LET a == DropHandle(s, id)
      b == [a EXCEPT !.processes[id] = "live",
                     !.monitors[id] = TRUE,
                     !.screenshotTimers[id] = TRUE,
                     !.segmentHealthChecks[id] = TRUE]
  IN saveConfig(IF kind = "stale" THEN b
                ELSE [b EXCEPT !.streams[id].status = "running"])

\* spawn threw: the catch block of the continuation
launchFailed(s, id, kind) ==
  saveConfig(RecordError(IF kind = "stale" THEN s
                         ELSE [s EXCEPT !.streams[id].status = "error"],
                         id, "system"))

(***************************************************************************)
(* importConfig(config, true, append), as POST /api/restore calls it.      *)
(* payload is the set of ids of config.streams.                            *)
(***************************************************************************)
RECURSIVE stopAllStreams(_, _)
stopAllStreams(s, todo) ==
  IF todo = {} THEN s
  ELSE LET id == CHOOSE x \in todo : TRUE
       IN stopAllStreams(IF s.streams[id].status = "running"
                         THEN stopStream(s, id) ELSE s, todo \ {id})

\* `this.streams = {}`: every record leaves the store
RECURSIVE clearStreams(_, _)
clearStreams(s, todo) ==
  IF todo = {} THEN s
  ELSE LET id == CHOOSE x \in todo : TRUE
       IN clearStreams([Orphan(s, id) EXCEPT !.streams[id] = NoStream],
                       todo \ {id})

\* the loop of importConfig without its `continue` for an id of the store
RECURSIVE importStreamsOverwrites(_, _, _)
importStreamsOverwrites(s, todo, append) ==
  IF todo = {} THEN s
  ELSE LET id == CHOOSE x \in todo : TRUE
           a == startStream([s EXCEPT !.streams[id] = NewStream], id)
       IN importStreamsOverwrites(a, todo \ {id}, append)

RECURSIVE importStreams(_, _, _)
importStreams(s, todo, append) ==
  IF todo = {} THEN s
  ELSE LET id == CHOOSE x \in todo : TRUE
           a == IF append /\ Exists(s, id) THEN s
                ELSE startStream([s EXCEPT !.streams[id] = NewStream], id)
       IN importStreams(a, todo \ {id}, append)

\* importConfig that empties the store before it stops the streams
importConfigClearsFirst(s, payload, append) ==
  saveConfig(importStreams(IF append THEN s
                           ELSE stopAllStreams(clearStreams(s, Ids), Ids),
                           payload, append))

importConfig(s, payload, append) ==
  saveConfig(importStreams(IF append THEN s
                           ELSE clearStreams(stopAllStreams(s, Ids), Ids),
                           payload, append))

(***************************************************************************)
(* checkStreamSegmentHealth on a running stream.  fresh tells whether the  *)
(* newest segment is younger than the staleness threshold.                 *)
(***************************************************************************)
\* checkStreamSegmentHealth whose last branch sets the status text only
checkStreamSegmentHealthTextOnly(s, id, fresh) ==
  IF ~Exists(s, id) \/ s.streams[id].status # "running" THEN s
  ELSE LET a == [s EXCEPT !.hlsDir[id] = IF @ = "none" THEN "empty" ELSE @]
       IN IF a.hlsDir[id] # "segments"
          THEN [RecordError(a, id, "segment") EXCEPT
                  !.streams[id].healthCheckStatus = "No playlist",
                  !.streams[id].health = "poor"]
          ELSE IF ~fresh
          THEN [RecordError(a, id, "segment") EXCEPT
                  !.streams[id].healthCheckStatus = "Stale segments",
                  !.streams[id].health = "poor"]
          ELSE [a EXCEPT !.streams[id].healthCheckStatus = "Healthy"]

\* checkStreamSegmentHealth whose 'No playlist' branch records no error
checkStreamSegmentHealthSilent(s, id, fresh) ==
  IF ~Exists(s, id) \/ s.streams[id].status # "running" THEN s
  ELSE LET a == [s EXCEPT !.hlsDir[id] = IF @ = "none" THEN "empty" ELSE @]
       IN IF a.hlsDir[id] # "segments"
          THEN [a EXCEPT
                  !.streams[id].healthCheckStatus = "No playlist",
                  !.streams[id].health = "poor"]
          ELSE IF ~fresh
          THEN [RecordError(a, id, "segment") EXCEPT
                  !.streams[id].healthCheckStatus = "Stale segments",
                  !.streams[id].health = "poor"]
          ELSE [a EXCEPT !.streams[id].healthCheckStatus = "Healthy",
                         !.streams[id].health = "good"]

checkStreamSegmentHealth(s, id, fresh) ==
  IF ~Exists(s, id) \/ s.streams[id].status # "running" THEN s
  ELSE LET a == [s EXCEPT !.hlsDir[id] = IF @ = "none" THEN "empty" ELSE @]
       IN IF a.hlsDir[id] # "segments"
          THEN [RecordError(a, id, "segment") EXCEPT
                  !.streams[id].healthCheckStatus = "No playlist",
                  !.streams[id].health = "poor"]
          ELSE IF ~fresh
          THEN [RecordError(a, id, "segment") EXCEPT
                  !.streams[id].healthCheckStatus = "Stale segments",
                  !.streams[id].health = "poor"]
          ELSE [a EXCEPT !.streams[id].healthCheckStatus = "Healthy",
                         !.streams[id].health = "good"]

(***************************************************************************)
(* analyzeHlsStreamInfo on the fields of stream.streamInfo.  A field is    *)
(* "unset", "detected" (a value read from the playlist, from ffprobe or    *)
(* estimated) or "sentinel" ('UNKNOWN' or 0 written by the last step).     *)
(***************************************************************************)
StreamInfoFields ==
  {"resolution", "videoCodec", "audioCodec", "bitrate", "audioBitrate", "fps"}

\* streamInfo = {} as startStream and analyzeHlsStreamInfo initialise it
NoStreamInfo == [f \in StreamInfoFields |-> "unset"]

\* the fields of found become detected values
detect(info, found) ==
  [f \in StreamInfoFields |-> IF f \in found THEN "detected" ELSE info[f]]

\* what the passes can find: BANDWIDTH and CODECS of the playlist (the
\* second codec only after a first), and the entries of the ffprobe output
PlaylistFinds ==
  {found \in SUBSET {"bitrate", "videoCodec", "audioCodec"} :
     "audioCodec" \in found => "videoCodec" \in found}

ProbeFinds ==
  {found \in SUBSET StreamInfoFields :
     "audioBitrate" \in found => "audioCodec" \in found}

\* analyzeHlsStreamInfo past its guards: fromPlaylist is what the playlist
\* declares, fromProbe what ffprobe reports of the newest of the segments
\* segment files (nothing when it fails)
analyzeHlsStreamInfo(info, fromPlaylist, fromProbe, segments) ==
  LET a == detect(info, fromPlaylist)
      b == IF /\ \E f \in {"videoCodec", "audioCodec", "bitrate"} :
                   a[f] = "unset"
              /\ segments > 0
           THEN detect(a, fromProbe) ELSE a
      c == IF b["bitrate"] = "unset" /\ segments >= 2
           THEN detect(b, {"bitrate"}) ELSE b
  IN [f \in StreamInfoFields |->
        IF f \in {"videoCodec", "resolution", "fps"} /\ c[f] = "unset"
        THEN "sentinel" ELSE c[f]]

(***************************************************************************)
(* History variables, kept by the specification of the automatic recovery  *)
(* alone (SpecAuto); the other specifications leave them at 0.             *)
(***************************************************************************)
hist == <<launches, failedExits, failedProbes>>

(***************************************************************************)
(* analyzeHlsPlaylist.  A master playlist is its #EXT-X-STREAM-INF tags in *)
(* order; a tag is its attribute list and whether the line after it is a   *)
(* URI.  A bandwidth is a number of Mbit/s, a resolution its height.       *)
(***************************************************************************)
Attr(name, value) == [name |-> name, value |-> value]

StreamInf(attrs, uri) == [attrs |-> attrs, uri |-> uri]

\* the GET fails: error, status other than 200, or too many redirects
Unreachable == [kind |-> "unreachable", tags |-> <<>>]

\* content without '#EXT-X-STREAM-INF'
Media == [kind |-> "media", tags |-> <<>>]

Master(tags) == [kind |-> "master", tags |-> tags]

\* this.selectedVariantInfo before any selection (undefined)
NoVariantInfo == [resolution |-> 0, bandwidth |-> 0]

\* the attribute names whose text ends with `name`
EndingWith(name) ==
  IF name = "BANDWIDTH" THEN {"BANDWIDTH", "AVERAGE-BANDWIDTH"} ELSE {name}

\* line.match(/#EXT-X-STREAM-INF:.*NAME=(\d+)/): `.*` is greedy, so the
\* group is the value after the last 'NAME=' of the line; 0 without a match
RECURSIVE lastMatch(_, _)
lastMatch(attrs, name) ==
  IF attrs = <<>> THEN 0
  ELSE IF attrs[Len(attrs)].name \in EndingWith(name)
  THEN attrs[Len(attrs)].value
  ELSE lastMatch(SubSeq(attrs, 1, Len(attrs) - 1), name)

\* the loop over the lines: one variant per tag that a URI line follows
RECURSIVE parseVariants(_, _)
parseVariants(tags, i) ==
  IF i > Len(tags) THEN <<>>
  ELSE (IF tags[i].uri
        THEN <<[url |-> i,
                resolution |-> lastMatch(tags[i].attrs, "RESOLUTION"),
                bandwidth |-> lastMatch(tags[i].attrs, "BANDWIDTH")]>>
        ELSE <<>>) \o parseVariants(tags, i + 1)

\* variants.sort((a, b) => b.bandwidth - a.bandwidth): Array.prototype.sort
\* is stable, so variants of equal bandwidth keep their order
RECURSIVE insertByBandwidth(_, _)
insertByBandwidth(sorted, v) ==
  IF sorted = <<>> THEN <<v>>
  ELSE IF Head(sorted).bandwidth >= v.bandwidth
  THEN <<Head(sorted)>> \o insertByBandwidth(Tail(sorted), v)
  ELSE <<v>> \o sorted

RECURSIVE sortByBandwidth(_)
sortByBandwidth(vs) ==
  IF vs = <<>> THEN <<>>
  ELSE insertByBandwidth(sortByBandwidth(SubSeq(vs, 1, Len(vs) - 1)),
                         vs[Len(vs)])

\* analyzeHlsPlaylist that lets the error of the GET escape
analyzeHlsPlaylistThrows(p, info) ==
  LET vs == sortByBandwidth(parseVariants(p.tags, 1))
  IN IF p.kind = "master" /\ vs # <<>>
     THEN [variant |-> vs[1].url, rejected |-> FALSE,
           info |-> [resolution |-> vs[1].resolution,
                     bandwidth |-> vs[1].bandwidth]]
     ELSE [variant |-> 0, rejected |-> p.kind = "unreachable", info |-> info]

\* analyzeHlsPlaylist(url) when the GET of url answers p and
\* this.selectedVariantInfo is info: the variant whose URL it resolves to
\* (0 for url itself), whether it rejects, and this.selectedVariantInfo
\* afterwards
analyzeHlsPlaylist(p, info) ==
  LET vs == sortByBandwidth(parseVariants(p.tags, 1))
  IN IF p.kind = "master" /\ vs # <<>>
     THEN [variant |-> vs[1].url, rejected |-> FALSE,
           info |-> [resolution |-> vs[1].resolution,
                     bandwidth |-> vs[1].bandwidth]]
     ELSE [variant |-> 0, rejected |-> FALSE, info |-> info]

UpTo(n, cap) == IF n < cap THEN n + 1 ELSE n

(***************************************************************************)
(* The state after construction: the constructor empties the tables and    *)
(* loadConfig takes the records of data/streams.json as they were saved,   *)
(* status included.                                                        *)
(***************************************************************************)
PersistedRecords ==
  {NewStream,
   [NewStream EXCEPT !.status = "starting"],
   [NewStream EXCEPT !.status = "running"],
   [NewStream EXCEPT !.status = "error", !.errorCount = 1,
                     !.lastErrorType = "ffmpeg"]}

ErrorsIdle == errorsRecent = <<>> /\ errorsRecorded = <<>>

\* the defaults of RECONNECT_DELAY and MAX_BACKOFF_DELAY
BackoffIdle ==
  reconnectDelay = 5 * 1000 /\ maxBackoffDelay = 60 * 1000 /\ delays = <<>>

\* stream.url as the n-th URL that updateStream stored (0: the URL of
\* addStream), and as a variant that analyzeHlsPlaylist resolved from it
EnteredUrl(n) == [entered |-> n, variant |-> FALSE]
VariantOf(u) == [entered |-> u.entered, variant |-> TRUE]

\* everything of Init but the settings of the backoff
\* no periodic analysis ran yet
AuxIdle ==
  /\ latestSegmentAge = [i \in Ids |-> -1]
  /\ streamInfo = [i \in Ids |-> NoStreamInfo]
  /\ storedUrl = [i \in Ids |-> EnteredUrl(0)]
  /\ analysed = [i \in Ids |-> <<>>]
  /\ updatedUrl = [i \in Ids |-> 0]
  /\ stoppedInGrace = [i \in Ids |-> FALSE]

\* the files on disk are not followed
DiskIdle ==
  /\ segmentFiles = [i \in Ids |-> 0]
  /\ screenshot = [i \in Ids |-> FALSE]
  /\ removedSegments = [i \in Ids |-> 0]

InitTables ==
  /\ ErrorsIdle
  /\ AuxIdle
  /\ streams \in [Ids -> PersistedRecords \cup {NoStream}]
  /\ processes = [i \in Ids |-> "none"]
  /\ unregistered = [i \in Ids |-> 0]
  /\ terminating = [i \in Ids |-> 0]
  /\ reconnectAttempts = [i \in Ids |-> 0]
  /\ reconnectTimers = [i \in Ids |-> "none"]
  /\ strayTimers = [i \in Ids |-> 0]
  /\ probes = [i \in Ids |-> 0]
  /\ starts = [i \in Ids |-> NoStarts]
  /\ restartTimers = [i \in Ids |-> 0]
  /\ monitors = [i \in Ids |-> FALSE]
  /\ screenshotTimers = [i \in Ids |-> FALSE]
  /\ segmentHealthChecks = [i \in Ids |-> FALSE]
  /\ hlsDir \in [Ids -> {"none", "segments"}]
  /\ \A i \in Ids : streams[i].status \in {"none", "stopped"}
                      \/ hlsDir[i] = "segments"
  /\ configFile = streams
  /\ launches = [i \in Ids |-> 0]
  /\ failedExits = [i \in Ids |-> 0]
  /\ failedProbes = [i \in Ids |-> 0]

ResolutionIdle == height = 0 /\ label = "none" /\ labelledBy = "none"

\* no variant was selected yet and the sources serve media playlists
VariantsIdle ==
  /\ playlist = [i \in Ids |-> Media]
  /\ selectedVariantInfo = NoVariantInfo
  /\ url = [i \in Ids |-> 0]
  /\ selectedResolution = [i \in Ids |-> 0]
  /\ streamInfoResolution = [i \in Ids |-> "none"]

Init ==
  InitTables /\ BackoffIdle /\ ResolutionIdle /\ VariantsIdle /\ DiskIdle

\* a handler's effect, when it stays inside the bounds of the model
Do(s) ==
  /\ InBounds(s)
  /\ Commit(s)
  /\ UNCHANGED <<hist, errs, backoff, resolution, variants, aux>>

(***************************************************************************)
(* Operations of the API (server.js).                                      *)
(***************************************************************************)
\* POST /api/streams: addStream under a fresh uuid
AddStream(id) ==
  /\ ~Exists(State, id)
  /\ processes[id] = "none" /\ unregistered[id] = 0 /\ terminating[id] = 0
  /\ reconnectTimers[id] = "none" /\ strayTimers[id] = 0 /\ probes[id] = 0
  /\ starts[id] = NoStarts /\ restartTimers[id] = 0
  /\ reconnectAttempts[id] = 0 /\ hlsDir[id] = "none"
  /\ Do(saveConfig([State EXCEPT !.streams[id] = NewStream]))

StartStream(id) ==
  /\ Do(startStream(State, id))

StopStream(id) ==
  /\ Do(stopStream(State, id))

RestartStream(id) ==
  /\ Exists(State, id)
  /\ Do(restartStream(State, id))

UpdateStream(id) ==
  /\ Exists(State, id)
  /\ Do(updateStream(State, id))

DeleteStream(id) ==
  /\ Exists(State, id)
  /\ Do(deleteStream(State, id))

ImportConfig(payload, append) ==
  /\ Do(importConfig(State, payload, append))

(***************************************************************************)
(* Timers, subprocess events and promise continuations.                    *)
(***************************************************************************)
\* the deferred start of restartStream fires
RestartTimerFire(id) ==
  /\ restartTimers[id] > 0
  /\ Do(startStream([State EXCEPT !.restartTimers[id] = @ - 1], id))

\* analyzeHlsPlaylist resolved and spawn returned a subprocess
StartLaunch(id, kind) ==
  /\ starts[id][kind] > 0
  /\ Do(launched([State EXCEPT !.starts[id][kind] = @ - 1], id, kind))

\* analyzeHlsPlaylist resolved and spawn threw
StartLaunchFails(id, kind) ==
  /\ starts[id][kind] > 0
  /\ Do(launchFailed([State EXCEPT !.starts[id][kind] = @ - 1], id, kind))

Handled(id) == Exists(State, id) /\ streams[id].status = "running"

\* the subprocess registered under id exits of its own
ExitRegistered(id) ==
  /\ processes[id] = "live"
  /\ Do(onExit([State EXCEPT !.processes[id] = "dead"], id))

\* a live subprocess of id that is not in the table exits of its own
ExitUnregistered(id) ==
  /\ unregistered[id] > 0
  /\ Do(onExit([State EXCEPT !.unregistered[id] = @ - 1], id))

\* a subprocess that stopStream signalled exits
ExitTerminated(id) ==
  /\ terminating[id] > 0
  /\ Do(onExit([State EXCEPT !.terminating[id] = @ - 1], id))

\* a subprocess of id that has not exited writes a chunk to stderr
StderrChunk(id, output) ==
  /\ processes[id] = "live" \/ unregistered[id] > 0 \/ terminating[id] > 0
  /\ Do(onStderr(State, id, output))

\* a reconnect timer fires and calls testSourceUrl; without a record the
\* probe resolves false at once and handleReconnect returns
ReconnectTimerFire(id) ==
  /\ reconnectTimers[id] = "pending"
  /\ Do(testSourceUrl([State EXCEPT !.reconnectTimers[id] = "fired"], id))

StrayTimerFire(id) ==
  /\ strayTimers[id] > 0
  /\ Do(testSourceUrl([State EXCEPT !.strayTimers[id] = @ - 1], id))

\* the probe found the source available: the callback starts the stream
ProbeAvailable(id) ==
  /\ probes[id] > 0
  /\ Do(startStream(probeDone(State, id), id))

\* the probe failed or timed out: the callback stays in the reconnect cycle
ProbeUnavailable(id) ==
  /\ probes[id] > 0
  /\ Do(handleReconnect(probeDone(State, id), id))

\* the segment-health interval of id fires
SegmentHealthCheck(id, fresh) ==
  /\ segmentHealthChecks[id]
  /\ Handled(id)
  /\ Do(checkStreamSegmentHealth(State, id, fresh))

\* a live transcoder of id writes its playlist and segments
WriteSegments(id) ==
  /\ processes[id] = "live" \/ unregistered[id] > 0
  /\ hlsDir[id] = "empty"
  /\ Do([State EXCEPT !.hlsDir[id] = "segments"])

UserOp ==
  \E id \in Ids :
    \/ AddStream(id)
    \/ StartStream(id)
    \/ StopStream(id)
    \/ RestartStream(id)
    \/ UpdateStream(id)
    \/ DeleteStream(id)

Import == \E payload \in SUBSET Ids, append \in BOOLEAN :
            ImportConfig(payload, append)

Event ==
  \E id \in Ids :
    \/ RestartTimerFire(id)
    \/ \E kind \in StartKinds : StartLaunch(id, kind)
    \/ \E kind \in StartKinds : StartLaunchFails(id, kind)
    \/ ExitRegistered(id)
    \/ ExitUnregistered(id)
    \/ ExitTerminated(id)
    \/ ReconnectTimerFire(id)
    \/ StrayTimerFire(id)
    \/ ProbeAvailable(id)
    \/ ProbeUnavailable(id)
    \/ \E fresh \in BOOLEAN : SegmentHealthCheck(id, fresh)
    \/ WriteSegments(id)

Next == UserOp \/ Import \/ Event

Spec == Init /\ [][Next]_vars

(***************************************************************************)
(* The automatic recovery alone: one stream that the user starts once,     *)
(* then only timers, subprocess events and continuations.  The history     *)
(* variables count what the reconnect policy did.                          *)
(***************************************************************************)
InitAuto ==
  /\ Init
  /\ \A i \in Ids : streams[i] = NewStream /\ hlsDir[i] = "none"

DoCounting(s, id, launch, exit, probe) ==
  /\ InBounds(s)
  /\ Commit(s)
  /\ launches' = [launches EXCEPT ![id] =
       IF launch THEN UpTo(@, MaxReconnectAttempts + 2) ELSE @]
  /\ failedExits' = [failedExits EXCEPT ![id] =
       IF exit THEN UpTo(@, MaxReconnectAttempts) ELSE @]
  /\ failedProbes' = [failedProbes EXCEPT ![id] =
       IF probe THEN UpTo(@, MaxReconnectAttempts) ELSE @]
  /\ UNCHANGED <<errs, backoff, resolution, variants, aux>>

\* the one start the user issues
FirstStart(id) ==
  /\ streams[id].status = "stopped"
  /\ Do(startStream(State, id))

AutoLaunch(id) ==
  /\ starts[id]["fresh"] > 0
  /\ DoCounting(launched([State EXCEPT !.starts[id]["fresh"] = @ - 1],
                         id, "fresh"), id, TRUE, FALSE, FALSE)

\* the exit of a subprocess counts as a failed restart when the reconnect
\* policy launched it, which is every launch after the first
AutoExit(id) ==
  /\ processes[id] = "live"
  /\ DoCounting(onExit([State EXCEPT !.processes[id] = "dead"], id), id,
                FALSE, Handled(id) /\ launches[id] >= 2, FALSE)

AutoProbeUnavailable(id) ==
  /\ probes[id] > 0
  /\ DoCounting(handleReconnect(probeDone(State, id), id), id,
                FALSE, FALSE, TRUE)

NextAuto ==
  \E id \in Ids :
    \/ FirstStart(id)
    \/ AutoLaunch(id)
    \/ StartLaunchFails(id, "fresh")
    \/ AutoExit(id)
    \/ ReconnectTimerFire(id)
    \/ ProbeAvailable(id)
    \/ AutoProbeUnavailable(id)
    \/ \E fresh \in BOOLEAN : SegmentHealthCheck(id, fresh)
    \/ WriteSegments(id)

SpecAuto == InitAuto /\ [][NextAuto]_vars

(***************************************************************************)
(* A stream from its creation: the store starts empty, the stream is       *)
(* added, started, checked and stopped, and its subprocess writes and      *)
(* exits; no restart, update, delete or import.                            *)
(***************************************************************************)
InitEmpty ==
  /\ Init
  /\ \A i \in Ids : streams[i] = NoStream /\ hlsDir[i] = "none"

NextLifecycle ==
  \E id \in Ids :
    \/ AddStream(id)
    \/ StartStream(id)
    \/ StartLaunch(id, "fresh")
    \/ WriteSegments(id)
    \/ \E fresh \in BOOLEAN : SegmentHealthCheck(id, fresh)
    \/ StopStream(id)
    \/ ExitTerminated(id)
    \/ ExitRegistered(id)
    \/ ReconnectTimerFire(id)
    \/ ProbeAvailable(id)
    \/ ProbeUnavailable(id)

SpecLifecycle == InitEmpty /\ [][NextLifecycle]_vars

(***************************************************************************)
(* The same with the scheduling of the event loop: a pending continuation  *)
(* resumes, a pending timer fires, a probe completes (ffprobe or its 10 s  *)
(* timeout), a signalled subprocess exits, and the segment-health interval *)
(* keeps firing.  What the check finds is up to the subprocess, so the     *)
(* interval is fair for the finding the stream is left with when its       *)
(* segments stay stale.  A live subprocess need not exit and the user need *)
(* not act.                                                                *)
(***************************************************************************)
FairLifecycle ==
  \A id \in Ids :
    /\ WF_vars(StartLaunch(id, "fresh"))
    /\ WF_vars(ReconnectTimerFire(id))
    /\ WF_vars(ProbeAvailable(id) \/ ProbeUnavailable(id))
    /\ WF_vars(ExitTerminated(id))
    /\ WF_vars(SegmentHealthCheck(id, FALSE))

SpecLifecycleFair == SpecLifecycle /\ FairLifecycle

(***************************************************************************)
(* The error list of one record: _recordError called with errors of any    *)
(* type, one after the other.  An entry is its type and its position in    *)
(* the order of recording, which stands for its timestamp.                 *)
(***************************************************************************)
ErrorTypes == {"ffmpeg", "segment"}

RecordErrorEntry(type) ==
  /\ Len(errorsRecorded) < MaxRecorded
  /\ LET entry == [timestamp |-> Len(errorsRecorded) + 1, type |-> type]
     IN /\ errorsRecent' = pushRecent(errorsRecent, entry)
        /\ errorsRecorded' = Append(errorsRecorded, entry)
  /\ UNCHANGED <<core, hist, backoff, resolution, variants, aux>>

NextErrors == \E type \in ErrorTypes : RecordErrorEntry(type)

SpecErrors == InitAuto /\ [][NextErrors]_vars

(***************************************************************************)
(* The backoff of handleReconnect: the delays it computes for attempt 0,   *)
(* 1, 2, ... under settings of RECONNECT_DELAY and MAX_BACKOFF_DELAY       *)
(* (seconds, turned into ms by the constructor).                           *)
(***************************************************************************)
ReconnectDelays == {1, 2, 5, 10}
MaxBackoffDelays == {30, 60, 120}

InitBackoff ==
  /\ InitTables
  /\ \A i \in Ids : streams[i] = NewStream /\ hlsDir[i] = "none"
  /\ reconnectDelay \in {d * 1000 : d \in ReconnectDelays}
  /\ maxBackoffDelay \in {d * 1000 : d \in MaxBackoffDelays}
  /\ delays = <<>>
  /\ ResolutionIdle
  /\ VariantsIdle
  /\ DiskIdle

ScheduleReconnect ==
  /\ Len(delays) <= MaxAttempt
  /\ delays' = Append(delays,
                      backoffDelay(reconnectDelay, maxBackoffDelay,
                                   Len(delays)))
  /\ UNCHANGED <<core, hist, errs, reconnectDelay, maxBackoffDelay,
                 resolution, variants, aux>>

NextBackoff == ScheduleReconnect

SpecBackoff == InitBackoff /\ [][NextBackoff]_vars

(***************************************************************************)
(* The resolution label: ffprobe reports a video stream of some height     *)
(* and analyzeHlsStreamInfo stores the label of that height.               *)
(***************************************************************************)
Heights == {h \in 1..MaxHeight : h % 20 \in {0, 19}}

InitResolution ==
  /\ InitTables
  /\ \A i \in Ids : streams[i] = NewStream /\ hlsDir[i] = "none"
  /\ BackoffIdle
  /\ height \in Heights
  /\ label = "none"
  /\ labelledBy = "none"
  /\ VariantsIdle
  /\ DiskIdle

AnalyzeResolution ==
  /\ label = "none"
  /\ label' = formattedResolution(height)
  /\ labelledBy' = "analyzeHlsStreamInfo"
  /\ UNCHANGED <<core, hist, errs, backoff, height, variants, aux>>

NextResolution == AnalyzeResolution

SpecResolution == InitResolution /\ [][NextResolution]_vars

(***************************************************************************)
(* The code paths that label a height: the continuation of startStream on  *)
(* the selected variant, analyzeHlsStreamInfo on the ffprobe output, the    *)
(* branches of _analyzeStreamResolution on stream.selectedResolution and   *)
(* on the RESOLUTION of the playlist, and the stream test of the server.   *)
(* A resolution is 'WxH'; the widths are those of 16:9 pictures.           *)
(***************************************************************************)
width(h) == (h * 16) \div 9

\* _analyzeStreamResolution on stream.selectedResolution = 'WxH'
selectedResolutionLabel(h) ==
  IF h >= 1080 THEN "1080p"
  ELSE IF h >= 720 THEN "720p"
  ELSE IF h >= 480 THEN "480p"
  ELSE IF h >= 360 THEN "360p"
  ELSE ToString(width(h)) \o "x" \o ToString(h)

\* _analyzeStreamResolution on a RESOLUTION=WxH of the playlist, by either
\* of its two patterns
playlistResolutionLabel(h) ==
  IF h >= 1080 THEN "1080p"
  ELSE IF h >= 720 THEN "720p"
  ELSE IF h >= 480 THEN "480p"
  ELSE IF h >= 360 THEN "360p"
  ELSE ToString(h) \o "p"

\* resolutionLabel of the stream test of server.js
resolutionLabel(h) ==
  IF h >= 2160 THEN "4K"
  ELSE IF h >= 1440 THEN "1440p"
  ELSE IF h >= 1080 THEN "1080p"
  ELSE IF h >= 720 THEN "720p"
  ELSE IF h >= 480 THEN "480p"
  ELSE IF h >= 360 THEN "360p"
  ELSE IF h >= 240 THEN "240p"
  ELSE ToString(h) \o "p"

LabelPaths ==
  {"startStream", "analyzeHlsStreamInfo", "selectedResolution",
   "playlistResolution", "streamTest"}

labelOn(path, h) ==
  CASE path = "startStream" -> formattedResolution(h)
    [] path = "analyzeHlsStreamInfo" -> formattedResolution(h)
    [] path = "selectedResolution" -> selectedResolutionLabel(h)
    [] path = "playlistResolution" -> playlistResolutionLabel(h)
    [] path = "streamTest" -> resolutionLabel(h)

LabelHeight(path) ==
  /\ label = "none"
  /\ label' = labelOn(path, height)
  /\ labelledBy' = path
  /\ UNCHANGED <<core, hist, errs, backoff, height, variants, aux>>

NextLabels == \E path \in LabelPaths : LabelHeight(path)

SpecLabels == InitResolution /\ [][NextLabels]_vars

(***************************************************************************)
(* The age of the newest segment: a running stream whose subprocess wrote  *)
(* segments, checked when the newest of them is some number of seconds     *)
(* old.  No environment variable is set.                                   *)
(***************************************************************************)
\* this.maxSegmentAge of the constructor, in s
maxSegmentAge == maxSegmentAgeFactor * hlsSegmentTime

\* the test `segmentAge > maxSegmentAge` of checkStreamSegmentHealth, where
\* maxSegmentAge is `process.env.MAX_SEGMENT_AGE || 30`
segmentIsTooOld(age) == age > checkedMaxSegmentAge

\* the segment-health interval of id fires when playlist and segments
\* exist and the newest segment file is age seconds old
SegmentHealthCheckAged(id, age) ==
  /\ segmentHealthChecks[id]
  /\ Handled(id)
  /\ hlsDir[id] = "segments"
  /\ LET s == checkStreamSegmentHealth(State, id, ~segmentIsTooOld(age))
     IN InBounds(s) /\ Commit(s)
  /\ latestSegmentAge' = [latestSegmentAge EXCEPT ![id] = age]
  /\ UNCHANGED <<hist, errs, backoff, resolution, variants, streamInfo,
                 segmentFiles, screenshot, removedSegments, edits,
                 stoppedInGrace>>

NextSegmentAge ==
  \E id \in Ids :
    \/ StartStream(id)
    \/ StartLaunch(id, "fresh")
    \/ WriteSegments(id)
    \/ \E age \in 0..MaxAgeSeen : SegmentHealthCheckAged(id, age)
    \/ StopStream(id)
    \/ ExitTerminated(id)

SpecSegmentAge == InitAuto /\ [][NextSegmentAge]_vars

(***************************************************************************)
(* A reconnect cycle in which the source stays unavailable: the user       *)
(* starts the stream once, its subprocess exits, and every probe of the    *)
(* reconnect policy fails.  failedProbes counts the probes.  The timer     *)
(* fires after its delay and ffprobe answers or is timed out after 10 s.   *)
(***************************************************************************)
CycleProbeUnavailable(id) ==
  /\ probes[id] > 0
  /\ failedProbes[id] <= MaxReconnectAttempts
  /\ LET s == handleReconnect(probeDone(State, id), id)
     IN InBounds(s) /\ Commit(s)
  /\ failedProbes' = [failedProbes EXCEPT ![id] = @ + 1]
  /\ UNCHANGED <<launches, failedExits, errs, backoff, resolution, variants,
                 aux>>

NextUnavailable ==
  \E id \in Ids :
    \/ FirstStart(id)
    \/ StartLaunch(id, "fresh")
    \/ WriteSegments(id)
    \/ \E fresh \in BOOLEAN : SegmentHealthCheck(id, fresh)
    \/ \E age \in 0..MaxAgeSeen : SegmentHealthCheckAged(id, age)
    \/ \E output \in SUBSET Phrases : StderrChunk(id, output)
    \/ ExitRegistered(id)
    \/ ReconnectTimerFire(id)
    \/ CycleProbeUnavailable(id)

FairUnavailable ==
  \A id \in Ids :
    /\ WF_vars(ReconnectTimerFire(id))
    /\ WF_vars(CycleProbeUnavailable(id))

SpecUnavailable == InitAuto /\ [][NextUnavailable]_vars /\ FairUnavailable

(***************************************************************************)
(* The analysis of a running stream: analyzeHlsStreamInfo runs on what the *)
(* subprocess wrote of one, two or more segment files.                     *)
(***************************************************************************)
AnalyzeStreamInfo(id, fromPlaylist, fromProbe, segments) ==
  /\ Handled(id)
  /\ hlsDir[id] # "none"
  /\ segments = 0 <=> hlsDir[id] = "empty"
  /\ streamInfo' = [streamInfo EXCEPT ![id] =
       analyzeHlsStreamInfo(@, IF segments = 0 THEN {} ELSE fromPlaylist,
                            fromProbe, segments)]
  /\ LET s == saveConfig(State) IN InBounds(s) /\ Commit(s)
  /\ UNCHANGED <<hist, errs, backoff, resolution, variants, edits,
                 latestSegmentAge, segmentFiles, screenshot, removedSegments,
                 stoppedInGrace>>

NextStreamInfo ==
  \E id \in Ids :
    \/ StartStream(id)
    \/ StartLaunch(id, "fresh")
    \/ WriteSegments(id)
    \/ \E fromPlaylist \in PlaylistFinds : \E fromProbe \in ProbeFinds :
         \E segments \in 0..MaxSegmentFiles :
           AnalyzeStreamInfo(id, fromPlaylist, fromProbe, segments)
    \/ StopStream(id)
    \/ ExitTerminated(id)

SpecStreamInfo == InitAuto /\ [][NextStreamInfo]_vars

(***************************************************************************)
(* Housekeeping.  The cleanup interval runs cleanupHlsDirectories,         *)
(* cleanupScreenshots and cleanupOrphanedFiles in turn over the segment    *)
(* directories and preview files on disk, which may be left over from      *)
(* streams that are no longer in the store.                                *)
(***************************************************************************)
\* the trim that removes one file more than it should
keptSegmentsOneLess(n) == IF n > hlsListSize THEN hlsListSize - 1 ELSE n

\* cleanupHlsDirectories on a directory of n .ts files: what it keeps
keptSegments(n) == IF n > hlsListSize THEN hlsListSize ELSE n

\* the ids the three functions treat as orphans, and those they trim
Orphans == {i \in Ids : ~Exists(State, i)}

Trimmed ==
  {i \in Ids : hlsDir[i] # "none" /\ streams[i].status # "running"}

Cleanup ==
  /\ segmentFiles' =
       [i \in Ids |-> IF i \in Orphans THEN 0
                      ELSE IF i \in Trimmed THEN keptSegments(segmentFiles[i])
                      ELSE segmentFiles[i]]
  /\ removedSegments' =
       [i \in Ids |-> IF i \in Trimmed
                      THEN segmentFiles[i] - keptSegments(segmentFiles[i])
                      ELSE 0]
  /\ screenshot' = [i \in Ids |-> screenshot[i] /\ i \notin Orphans]
  /\ Commit([State EXCEPT !.hlsDir =
               [i \in Ids |-> IF i \in Orphans THEN "none" ELSE hlsDir[i]]])
  /\ UNCHANGED <<hist, errs, backoff, resolution, variants, edits,
                 latestSegmentAge, streamInfo, stoppedInGrace>>

\* a handler that leaves the files on disk alone
DoOnTables(s) ==
  /\ InBounds(s)
  /\ Commit(s)
  /\ UNCHANGED <<hist, errs, backoff, resolution, variants>>
  /\ UNCHANGED <<latestSegmentAge, streamInfo, removedSegments, edits,
                 stoppedInGrace>>

\* the transcoder of id writes one more segment file
WriteSegmentFile(id) ==
  /\ processes[id] = "live"
  /\ hlsDir[id] # "none"
  /\ segmentFiles[id] < MaxFilesOnDisk
  /\ segmentFiles' = [segmentFiles EXCEPT ![id] = @ + 1]
  /\ DoOnTables([State EXCEPT !.hlsDir[id] = "segments"])
  /\ UNCHANGED screenshot

\* the screenshot interval of id fires and ffmpeg writes the preview
TakeScreenshot(id) ==
  /\ screenshotTimers[id]
  /\ Handled(id)
  /\ screenshot' = [screenshot EXCEPT ![id] = TRUE]
  /\ DoOnTables(State)
  /\ UNCHANGED segmentFiles

\* DELETE /api/streams/:id: the directory and the preview go with the record
DeleteStreamAndFiles(id) ==
  /\ Exists(State, id)
  /\ segmentFiles' = [segmentFiles EXCEPT ![id] = 0]
  /\ screenshot' = [screenshot EXCEPT ![id] = FALSE]
  /\ DoOnTables(deleteStream(State, id))

InitCleanup ==
  /\ InitTables
  /\ BackoffIdle
  /\ ResolutionIdle
  /\ VariantsIdle
  /\ \A i \in Ids : streams[i] \in {NoStream, NewStream}
  /\ segmentFiles \in [Ids -> 0..MaxFilesOnDisk]
  /\ \A i \in Ids : segmentFiles[i] > 0 <=> hlsDir[i] = "segments"
  /\ screenshot \in [Ids -> BOOLEAN]
  /\ removedSegments = [i \in Ids |-> 0]

NextCleanup ==
  \/ Cleanup
  \/ \E id \in Ids :
       \/ StartStream(id)
       \/ StartLaunch(id, "fresh")
       \/ StopStream(id)
       \/ ExitTerminated(id)
       \/ WriteSegmentFile(id)
       \/ TakeScreenshot(id)
       \/ DeleteStreamAndFiles(id)

SpecCleanup == InitCleanup /\ [][NextCleanup]_vars

(***************************************************************************)
(* The stderr of the transcoder: one stream that is started and stopped,   *)
(* its subprocesses writing chunks to stderr until they exit, and the      *)
(* reconnect policy after an exit.                                         *)
(***************************************************************************)
NextStderr ==
  \E id \in Ids :
    \/ StartStream(id)
    \/ StartLaunch(id, "fresh")
    \/ \E output \in SUBSET Phrases : StderrChunk(id, output)
    \/ StopStream(id)
    \/ ExitTerminated(id)
    \/ ExitRegistered(id)
    \/ ExitUnregistered(id)
    \/ ReconnectTimerFire(id)
    \/ ProbeAvailable(id)
    \/ ProbeUnavailable(id)

SpecStderr == InitAuto /\ [][NextStderr]_vars

(***************************************************************************)
(* The variant selection of startStream.  The source of a stream serves a  *)
(* playlist; once startStream stored a variant's URL in stream.url, the    *)
(* next start fetches that variant, which is a media playlist.             *)
(***************************************************************************)
Bandwidths == 1..MaxBandwidth

Resolutions == {360, 1080}

Tags ==
  LET Declared(b) == Attr("BANDWIDTH", b)
      Average(a) == Attr("AVERAGE-BANDWIDTH", a)
      Pairs == {x \in Bandwidths \X Bandwidths : x[1] <= x[2]}
  IN {StreamInf(<<Declared(b)>>, TRUE) : b \in Bandwidths}
     \cup {StreamInf(<<Declared(x[1]), Attr("RESOLUTION", x[2])>>, TRUE) :
             x \in Bandwidths \X Resolutions}
     \cup {StreamInf(<<Average(x[1]), Declared(x[2])>>, TRUE) : x \in Pairs}
     \cup {StreamInf(<<Declared(x[2]), Average(x[1])>>, TRUE) : x \in Pairs}
     \cup {StreamInf(<<Declared(MaxBandwidth)>>, FALSE)}

Playlists ==
  {Unreachable, Media}
    \cup {Master(t) : t \in UNION {[1..k -> Tags] : k \in 1..MaxVariants}}

\* the playlists of the streams that are started side by side
StartPlaylists ==
  {Unreachable, Media,
   Master(<<StreamInf(<<Attr("BANDWIDTH", 1)>>, FALSE)>>),
   Master(<<StreamInf(<<Attr("BANDWIDTH", 1)>>, TRUE)>>),
   Master(<<StreamInf(<<Attr("BANDWIDTH", 1),
                        Attr("RESOLUTION", 360)>>, TRUE)>>),
   Master(<<StreamInf(<<Attr("BANDWIDTH", 1),
                        Attr("RESOLUTION", 1080)>>, TRUE)>>)}

\* what the GET of stream.url answers
served(id) == IF url[id] = 0 THEN playlist[id] ELSE Media

\* analyzeHlsPlaylist resolved for a start of id and spawn returned a
\* subprocess: the continuation stores the URL and the resolution
ResolveStart(id) ==
  /\ starts[id]["fresh"] > 0
  /\ LET r == analyzeHlsPlaylist(served(id), selectedVariantInfo)
         s == [State EXCEPT !.starts[id]["fresh"] = @ - 1]
     IN IF r.rejected
        THEN /\ InBounds(s)
             /\ Commit(launchFailed(s, id, "fresh"))
             /\ UNCHANGED variants
        ELSE /\ InBounds(s)
             /\ Commit(launched(s, id, "fresh"))
             /\ selectedVariantInfo' = r.info
             /\ url' = [url EXCEPT ![id] =
                          IF r.variant = 0 THEN @ ELSE r.variant]
             /\ IF r.info.resolution # 0
                THEN /\ selectedResolution' =
                          [selectedResolution EXCEPT
                             ![id] = r.info.resolution]
                     /\ streamInfoResolution' =
                          [streamInfoResolution EXCEPT
                             ![id] = formattedResolution(r.info.resolution)]
                ELSE UNCHANGED <<selectedResolution, streamInfoResolution>>
             /\ UNCHANGED playlist
  /\ UNCHANGED <<hist, errs, backoff, resolution, aux>>

\* analyzeHlsPlaylist resolves for the start of another stream
OtherStreamAnalysis(p) ==
  /\ selectedVariantInfo' =
       analyzeHlsPlaylist(p, selectedVariantInfo).info
  /\ selectedVariantInfo' # selectedVariantInfo
  /\ UNCHANGED <<core, hist, errs, backoff, resolution, aux, playlist, url,
                 selectedResolution, streamInfoResolution>>

\* streams that were added and never started, their sources serving
\* playlists of the set answers
InitSelection(answers) ==
  /\ InitTables
  /\ \A i \in Ids : streams[i] = NewStream /\ hlsDir[i] = "none"
  /\ BackoffIdle
  /\ ResolutionIdle
  /\ DiskIdle
  /\ playlist \in [Ids -> answers]
  /\ selectedVariantInfo = NoVariantInfo
  /\ url = [i \in Ids |-> 0]
  /\ selectedResolution = [i \in Ids |-> 0]
  /\ streamInfoResolution = [i \in Ids |-> "none"]

InitPlaylist == InitSelection(Playlists)

NextPlaylist ==
  \E id \in Ids :
    \/ StartStream(id)
    \/ ResolveStart(id)
    \/ StopStream(id)
    \/ ExitTerminated(id)

SpecPlaylist == InitPlaylist /\ [][NextPlaylist]_vars

InitVariants == InitSelection(StartPlaylists)

NextVariants ==
  \/ NextPlaylist
  \/ \E p \in StartPlaylists : OtherStreamAnalysis(p)

SpecVariants == InitVariants /\ [][NextVariants]_vars

(***************************************************************************)
(* Properties.                                                             *)
(***************************************************************************)
\* live subprocesses of id that stopStream did not signal
LiveSubprocesses(id) ==
  (IF processes[id] = "live" THEN 1 ELSE 0) + unregistered[id]

\* C1: for every id at most one live transcoder subprocess exists, and it
\* is the one registered in the process table under that id.
C1_OneLiveSubprocess ==
  \A id \in Ids :
    /\ LiveSubprocesses(id) <= 1
    /\ LiveSubprocesses(id) = 1 => processes[id] = "live"

\* C2: a record whose status is 'running' has a subprocess handle registered
\* in the process table, from the state loaded at start-up onwards.
C2_RunningHasHandle ==
  \A id \in Ids : streams[id].status = "running" => processes[id] # "none"

\* C3: a record whose status is 'stopped' or 'error' has no subprocess handle
\* registered in the process table.
C3_StoppedOrErrorHasNoHandle ==
  \A id \in Ids :
    streams[id].status \in {"stopped", "error"} => processes[id] = "none"

Terminal(id) ==
  /\ streams[id].status = "error"
  /\ streams[id].health = "failed"
  /\ streams[id].healthCheckStatus = "max_reconnect_exceeded"

ReconnectPending(id) == reconnectTimers[id] = "pending" \/ strayTimers[id] > 0

\* C4: after MaxReconnectAttempts consecutive failed automatic restarts the
\* stream is in the terminal state and no reconnect timer is scheduled.
C4_TerminalAfterMaxFailures ==
  \A id \in Ids :
    failedExits[id] + failedProbes[id] >= MaxReconnectAttempts
      => Terminal(id) /\ ~ReconnectPending(id)

\* a start that the user initiated: start, the deferred start of restart,
\* update or import
UserStart(id) ==
  \/ StartStream(id)
  \/ RestartTimerFire(id)
  \/ UpdateStream(id)
  \/ \E payload \in SUBSET Ids, append \in BOOLEAN :
       ImportConfig(payload, append)

\* C5: only a user-initiated start sets the reconnect attempt counter to 0;
\* the start issued by the reconnect policy leaves it unchanged.
C5_OnlyUserStartResetsCounter ==
  [][\A id \in Ids :
       /\ reconnectAttempts[id] # 0 /\ reconnectAttempts'[id] = 0
            => UserStart(id)
       /\ ProbeAvailable(id) => reconnectAttempts'[id] = reconnectAttempts[id]
    ]_vars

\* C6: while every probe succeeds, the reconnect policy relaunches the
\* subprocess at most MaxReconnectAttempts times after the user's launch.
C6_BoundedRelaunches ==
  \A id \in Ids :
    failedProbes[id] = 0 => launches[id] <= MaxReconnectAttempts + 1

\* nothing is left that would act on id without the user
Quiet(id) ==
  /\ ~ReconnectPending(id)
  /\ probes[id] = 0
  /\ starts[id] = NoStarts
  /\ restartTimers[id] = 0

\* C7: after an unexpected exit the stream eventually runs again or is in
\* the terminal state; so a stream that ran, and is left in 'error' with
\* nothing pending for it, is in the terminal state.
C7_ErrorIsRetriedOrTerminal ==
  \A id \in Ids :
    launches[id] >= 1 /\ streams[id].status = "error" /\ Quiet(id)
      => streams[id].health = "failed"

\* C8: the exit event of a subprocess that stopStream terminated records no
\* error, does not set the status to 'error' and schedules no reconnect.
C8_StoppedExitIsSilent ==
  [][\A id \in Ids :
       ExitTerminated(id) =>
         /\ streams'[id] = streams[id]
         /\ reconnectTimers'[id] = reconnectTimers[id]
         /\ strayTimers'[id] = strayTimers[id]
         /\ reconnectAttempts'[id] = reconnectAttempts[id]
    ]_vars

\* C9: stop(id) on a stream that is already stopped succeeds and changes
\* nothing: record, process table, timers and saved configuration.
C9_StopIsIdempotent ==
  \A id \in Ids :
    streams[id].status = "stopped" => stopStream(State, id) = State

\* a stop has acted: it signalled the subprocess and saved the record
C9_StoppedAfterStop ==
  \E id \in Ids :
    /\ streams[id].status = "stopped"
    /\ terminating[id] > 0
    /\ configFile = streams

\* C10: stop(id) on a stream in status starting, running or error leaves
\* status 'stopped', health 'unknown', no handle and no reconnect,
\* screenshot, segment-health or monitoring timer registered for id, and
\* the segment directory as it was.
C10_StopPostcondition ==
  \A id \in Ids :
    streams[id].status \in {"starting", "running", "error"} =>
      LET a == stopStream(State, id)
      IN /\ a.streams[id].status = "stopped"
         /\ a.streams[id].health = "unknown"
         /\ a.processes[id] = "none"
         /\ a.reconnectTimers[id] = "none"
         /\ ~a.screenshotTimers[id]
         /\ ~a.segmentHealthChecks[id]
         /\ ~a.monitors[id]
         /\ a.hlsDir = hlsDir

\* a running stream with segments on disk was stopped
C10_StoppedWithSegments ==
  \E id \in Ids :
    /\ streams[id].status = "stopped"
    /\ streams[id].health = "unknown"
    /\ streams[id].healthCheckStatus = "Healthy"
    /\ processes[id] = "none"
    /\ terminating[id] > 0
    /\ ~monitors[id]
    /\ hlsDir[id] = "segments"

\* C11: after deleteStream(id) on an existing stream the record is gone,
\* the segment directory is removed and no monitoring, screenshot,
\* segment-health or reconnect timer of the stream remains pending.
C11_DeleteLeavesNothing ==
  [][\A id \in Ids :
       DeleteStream(id) =>
         /\ ~Exists(State, id)'
         /\ hlsDir'[id] = "none"
         /\ ~monitors'[id]
         /\ ~screenshotTimers'[id]
         /\ ~segmentHealthChecks'[id]
         /\ reconnectTimers'[id] # "pending"
    ]_vars

\* C12: errors.recent has at most 10 entries, and they are the most
\* recently recorded errors in the order of recording (all of them when
\* fewer than 10 were recorded).
C12_RecentIsLastTen ==
  LET n == Len(errorsRecorded)
      k == IF n < 10 THEN n ELSE 10
  IN /\ Len(errorsRecent) = k
     /\ \A i \in 1..k : errorsRecent[i] = errorsRecorded[n - k + i]

\* more than 10 errors were recorded: the oldest were evicted
C12_Evicted ==
  /\ Len(errorsRecorded) > 10
  /\ Len(errorsRecent) = 10
  /\ errorsRecent[1].timestamp = Len(errorsRecorded) - 9

\* C13: with base delay 5000 ms and cap 60000 ms the delay of attempt n is
\* min(5000 * 1.5^n, 60000): 5000, 7500, 11250, ..., non-decreasing, never
\* above 60000 and equal to 60000 from attempt 7 onward.
C13_BackoffSequence ==
  reconnectDelay = 5000 /\ maxBackoffDelay = 60000 =>
    \A i \in 1..Len(delays) :
      LET n == i - 1
          d == delays[i]
      IN /\ n = 0 => d.num = 5000 * d.den
         /\ n = 1 => d.num = 7500 * d.den
         /\ n = 2 => d.num = 11250 * d.den
         /\ d.num <= 60000 * d.den
         /\ n >= 7 => d.num = 60000 * d.den
         /\ n < 7 => d.num * Pow(2, n) = 5000 * Pow(3, n) * d.den
         /\ i > 1 => delays[i - 1].num * d.den <= d.num * delays[i - 1].den

\* attempt 7 was scheduled under the default settings, at the cap
C13_ReachedCap ==
  /\ reconnectDelay = 5000 /\ maxBackoffDelay = 60000
  /\ Len(delays) >= 8
  /\ delays[7].num < 60000 * delays[7].den
  /\ delays[8] = [num |-> 60000, den |-> 1]

\* C14: importConfig in append mode leaves the record, the subprocess and
\* the timers of every id of the store unchanged, and adds exactly the ids
\* of the payload that the store does not have.
C14_AppendKeepsExisting ==
  \A payload \in SUBSET Ids :
    LET a == importConfig(State, payload, TRUE)
    IN \A id \in Ids :
         /\ Exists(a, id) <=> Exists(State, id) \/ id \in payload
         /\ Exists(State, id) =>
              /\ a.streams[id] = streams[id]
              /\ a.processes[id] = processes[id]
              /\ a.unregistered[id] = unregistered[id]
              /\ a.terminating[id] = terminating[id]
              /\ a.reconnectTimers[id] = reconnectTimers[id]
              /\ a.reconnectAttempts[id] = reconnectAttempts[id]
              /\ a.strayTimers[id] = strayTimers[id]
              /\ a.restartTimers[id] = restartTimers[id]
              /\ a.monitors[id] = monitors[id]
              /\ a.screenshotTimers[id] = screenshotTimers[id]
              /\ a.segmentHealthChecks[id] = segmentHealthChecks[id]
              /\ a.starts[id] = starts[id]
         /\ ~Exists(State, id) /\ id \in payload =>
              a.streams[id] = [NewStream EXCEPT !.status = "starting"]

\* a stream of the store that an append import of its id must not touch:
\* it runs, with its subprocess and timers registered and errors counted
C14_RunningWithErrors ==
  \E id \in Ids :
    /\ streams[id].status = "running"
    /\ streams[id].errorCount > 0
    /\ processes[id] = "live"
    /\ monitors[id] /\ screenshotTimers[id] /\ segmentHealthChecks[id]
    /\ configFile = streams

\* C15: importConfig in overwrite mode signals and deregisters the
\* subprocess of every running stream, and leaves a store whose ids are the
\* ids of the payload, each record created 'stopped' / 'unknown' and then
\* started.
C15_OverwriteReplacesStore ==
  \A payload \in SUBSET Ids :
    LET a == importConfig(State, payload, FALSE)
    IN \A id \in Ids :
         /\ Exists(a, id) <=> id \in payload
         /\ streams[id].status = "running" =>
              /\ a.processes[id] = "none"
              /\ a.terminating[id] =
                   terminating[id] + IF processes[id] = "live" THEN 1 ELSE 0
              /\ a.unregistered[id] = unregistered[id]
         /\ id \in payload =>
              a.streams[id] = [NewStream EXCEPT !.status = "starting"]

\* an import replaced the record of a stream: the subprocess of the old
\* record was signalled, a start continuation still holds the old record,
\* and the new record is being started
C15_ReplacedRunning ==
  \E id \in Ids :
    /\ streams[id] = [NewStream EXCEPT !.status = "starting"]
    /\ terminating[id] > 0
    /\ processes[id] = "none"
    /\ starts[id]["stale"] = 1 /\ starts[id]["fresh"] = 1
    /\ ~monitors[id]

\* C16: a segment-health check on a running stream whose playlist is
\* missing ends with health 'poor', healthCheckStatus 'No playlist' and one
\* more recorded error, of type 'segment', whatever the health was before.
C16_NoPlaylistIsPoor ==
  \A id \in Ids, fresh \in BOOLEAN,
     h \in {"unknown", "good", "degraded", "poor", "failed"} :
    Handled(id) /\ hlsDir[id] # "segments" =>
      LET b == [State EXCEPT !.streams[id].health = h]
          a == checkStreamSegmentHealth(b, id, fresh)
      IN /\ a.streams[id].health = "poor"
         /\ a.streams[id].healthCheckStatus = "No playlist"
         /\ a.streams[id].lastErrorType = "segment"
         /\ a.streams[id].errorCount =
              IF streams[id].errorCount < MaxErrors
              THEN streams[id].errorCount + 1 ELSE MaxErrors
         /\ a.streams[id].status = "running"

\* the check ran on a running stream before its playlist was written
C16_CheckedWithoutPlaylist ==
  \E id \in Ids :
    /\ streams[id].status = "running"
    /\ hlsDir[id] = "empty"
    /\ streams[id].healthCheckStatus = "No playlist"
    /\ streams[id].health = "poor"
    /\ streams[id].lastErrorType = "segment"
    /\ streams[id].errorCount > 0

\* C17: on a started stream whose subprocess wrote its playlist and
\* segments, the next segment-health check, finding them fresh, sets
\* healthCheckStatus 'Healthy' and health 'good'; a following stop sets
\* status 'stopped' and health 'unknown' and leaves the segment directory
\* as it is.
C17_HealthyThenStopped ==
  [][\A id \in Ids :
       /\ SegmentHealthCheck(id, TRUE) /\ hlsDir[id] = "segments" =>
            /\ streams'[id].healthCheckStatus = "Healthy"
            /\ streams'[id].health = "good"
            /\ streams'[id].status = "running"
            /\ hlsDir'[id] = hlsDir[id]
       /\ StopStream(id) /\ Handled(id) =>
            /\ streams'[id].status = "stopped"
            /\ streams'[id].health = "unknown"
            /\ hlsDir'[id] = hlsDir[id]
    ]_vars

\* the end of the sequence: no error was ever recorded, the last check
\* found the stream healthy, then it was stopped with its segments on disk
C17_SequenceDone ==
  \E id \in Ids :
    /\ streams[id] = [NewStream EXCEPT !.healthCheckStatus = "Healthy"]
    /\ hlsDir[id] = "segments"
    /\ terminating[id] > 0
    /\ processes[id] = "none"
    /\ starts[id] = NoStarts
    /\ configFile = streams

\* C18 as stated: height 1920 gives "1080p", 1280 gives "720p", 640 gives
\* "480p", 320 gives "360p" and 100 gives "100p".
C18_LabelsAsStated ==
  label # "none" =>
    /\ height = 1920 => label = "1080p"
    /\ height = 1280 => label = "720p"
    /\ height = 640 => label = "480p"
    /\ height = 320 => label = "360p"
    /\ height = 100 => label = "100p"

\* C18 as amended: height 1920 gives "1080p", 1280 gives "1080p", 640 gives
\* "480p", 320 gives "320p" and 100 gives "100p".
C18_LabelsByThreshold ==
  label # "none" =>
    /\ height = 1920 => label = "1080p"
    /\ height = 1280 => label = "1080p"
    /\ height = 640 => label = "480p"
    /\ height = 320 => label = "320p"
    /\ height = 100 => label = "100p"

\* a height below every threshold was labelled
C18_SmallHeightLabelled == height = 320 /\ label # "none"

\* C19: start(id) without a record returns false and changes nothing;
\* start(id) on a running stream returns true and changes nothing: record,
\* handle, timers, reconnect counter and pending continuations.
C19_StartIsNoOp ==
  \A id \in Ids :
    /\ ~Exists(State, id) =>
         /\ startStream(State, id) = State
         /\ startStreamReturns(State, id) = "false"
    /\ Handled(id) =>
         /\ startStream(State, id) = State
         /\ startStreamReturns(State, id) = "true"

\* a running stream on which a start would be seen if it did anything:
\* its reconnect counter is not 0 and a reconnect timer is registered
C19_RunningWithCounter ==
  \E id \in Ids :
    /\ streams[id].status = "running"
    /\ processes[id] = "live"
    /\ reconnectAttempts[id] > 0
    /\ reconnectTimers[id] = "pending"

\* an operation of the user on id: start, stop, restart (with its deferred
\* start), update, delete or import
UserOperation(id) ==
  \/ StartStream(id)
  \/ StopStream(id)
  \/ RestartStream(id)
  \/ RestartTimerFire(id)
  \/ UpdateStream(id)
  \/ DeleteStream(id)
  \/ \E payload \in SUBSET Ids, append \in BOOLEAN :
       ImportConfig(payload, append)

\* C20: once a stream is in the terminal state, a step that is not an
\* operation of the user leaves its record in the terminal state and
\* launches no subprocess for it.
C20_TerminalIsFinal ==
  [][\A id \in Ids :
       Terminal(id) /\ ~UserOperation(id) =>
         /\ streams'[id] = streams[id]
         /\ processes'[id] = "live" => processes[id] = "live"
         /\ unregistered'[id] <= unregistered[id]
    ]_vars

\* the stream runs, its subprocess is alive and the last segment-health
\* check found the newest segment older than the staleness threshold
StaleRunning(id) ==
  /\ streams[id].status = "running"
  /\ processes[id] = "live"
  /\ streams[id].healthCheckStatus = "Stale segments"

\* C21: a running stream whose segments are stale does not stay so for
\* ever: its segments become fresh again, or the stream is handed to the
\* reconnect policy.
C21_StaleIsRecovered ==
  \A id \in Ids :
    StaleRunning(id) ~>
      (~StaleRunning(id) \/ ReconnectPending(id) \/ probes[id] > 0)

\* C22: when the continuation of a start resumes after the stream was
\* stopped or deleted, it launches no subprocess, registers no timer and
\* does not set the status 'running'.
C22_StoppedStartDoesNotLaunch ==
  [][\A id \in Ids : \A kind \in StartKinds :
       /\ StartLaunch(id, kind)
       /\ ~Exists(State, id) \/ streams[id].status = "stopped"
       => /\ processes'[id] = processes[id]
          /\ monitors'[id] = monitors[id]
          /\ screenshotTimers'[id] = screenshotTimers[id]
          /\ segmentHealthChecks'[id] = segmentHealthChecks[id]
          /\ streams'[id].status # "running"]_vars

\* C23: a probe of the reconnect timer that completes after the stream was
\* stopped or deleted neither starts the stream nor schedules a reconnect
\* timer.
C23_LateProbeDoesNotAct ==
  [][\A id \in Ids :
       /\ ProbeAvailable(id) \/ ProbeUnavailable(id)
       /\ ~Exists(State, id) \/ streams[id].status = "stopped"
       => /\ starts'[id] = starts[id]
          /\ reconnectTimers'[id] = reconnectTimers[id]
          /\ strayTimers'[id] = strayTimers[id]
          /\ streams'[id].status = streams[id].status]_vars

\* C24: a monitoring, screenshot or segment-health timer is registered for
\* an id only if the id has a record whose status is not 'stopped'.
C24_TimersOnlyForActiveRecords ==
  \A id \in Ids :
    monitors[id] \/ screenshotTimers[id] \/ segmentHealthChecks[id]
      => Exists(State, id) /\ streams[id].status # "stopped"

\* some subprocess started for id exits
SubprocessExit(id) ==
  ExitRegistered(id) \/ ExitUnregistered(id) \/ ExitTerminated(id)

C26_ResolutionIsOwn ==
  [][\A id \in Ids :
       ResolveStart(id) =>
         LET own == analyzeHlsPlaylist(served(id), NoVariantInfo).info
         IN IF own.resolution # 0
            THEN /\ selectedResolution'[id] = own.resolution
                 /\ streamInfoResolution'[id] =
                      formattedResolution(own.resolution)
            ELSE /\ selectedResolution'[id] = selectedResolution[id]
                 /\ streamInfoResolution'[id] = streamInfoResolution[id]]_vars

\* the BANDWIDTH attribute of a tag
declaredBandwidth(tag) ==
  LET i == CHOOSE j \in 1..Len(tag.attrs) : tag.attrs[j].name = "BANDWIDTH"
  IN tag.attrs[i].value

\* the tags of p that a URI line follows
Usable(p) == {i \in 1..Len(p.tags) : p.tags[i].uri}

\* C27: for a multi-variant playlist the start resolves to the URL of the
\* variant with the highest declared bandwidth, the first of them in the
\* playlist when several declare it.
C27_HighestDeclaredBandwidth ==
  [][\A id \in Ids :
       ResolveStart(id) /\ Usable(served(id)) # {}
         => LET p == served(id)
            IN /\ url'[id] \in Usable(p)
               /\ \A j \in Usable(p) :
                    \/ declaredBandwidth(p.tags[j])
                         < declaredBandwidth(p.tags[url'[id]])
                    \/ /\ declaredBandwidth(p.tags[j])
                            = declaredBandwidth(p.tags[url'[id]])
                       /\ url'[id] <= j]_vars

\* the playlist cannot be fetched, is not multi-variant or has no variant
NoVariants(p) == p.kind # "master" \/ Usable(p) = {}

\* C28: when the playlist cannot be fetched, is not multi-variant or
\* yields no variant, the start keeps the URL it had, launches the
\* subprocess and reaches status 'running'.
C28_SelectionNeverFailsStart ==
  [][\A id \in Ids :
       ResolveStart(id) /\ NoVariants(served(id))
         => /\ url'[id] = url[id]
            /\ processes'[id] = "live"
            /\ streams'[id].status = "running"]_vars

C28_RunningOnOriginalUrl ==
  \E id \in Ids :
    /\ playlist[id] = Unreachable
    /\ url[id] = 0
    /\ streams[id].status = "running"
    /\ processes[id] = "live"

C30_HealthClassifiedAfterError ==
  [][\A id \in Ids : \A output \in SUBSET Phrases :
       StderrChunk(id, output) /\ "error" \in output /\ Handled(id)
         => streams'[id].health \in
              {genericHealth(n) : n \in 1..RecentCap}]_vars

\* C31: with the default configuration a check of a running stream with
\* playlist and segments finds 'Stale segments' and health 'poor' exactly
\* when the newest segment is older than 3 times the segment duration
\* (12 s), and 'Healthy' and 'good' otherwise.
C31_StaleBeyondThreeSegments ==
  [][\A id \in Ids : \A age \in 0..MaxAgeSeen :
       SegmentHealthCheckAged(id, age)
         => IF age > maxSegmentAge
            THEN /\ streams'[id].healthCheckStatus = "Stale segments"
                 /\ streams'[id].health = "poor"
            ELSE /\ streams'[id].healthCheckStatus = "Healthy"
                 /\ streams'[id].health = "good"]_vars

\* C32: in a reconnect cycle where every probe finds the source
\* unavailable, the counter is one more than the probes that failed so far
\* (the exit counted one attempt, each failed probe one more), at most
\* MaxReconnectAttempts probes are made, the terminal state is entered by
\* the last of them, and a stream in status 'error' reaches it.
C32_FailedProbesDepleteBudget ==
  /\ [](\A id \in Ids :
          /\ failedProbes[id] <= MaxReconnectAttempts
          /\ Terminal(id) <=> failedProbes[id] = MaxReconnectAttempts
          /\ streams[id].status = "error" /\ ~Terminal(id)
               => reconnectAttempts[id] = failedProbes[id] + 1)
  /\ \A id \in Ids : streams[id].status = "error" ~> Terminal(id)

C32_BudgetDepleted ==
  \E id \in Ids :
    /\ Terminal(id)
    /\ failedProbes[id] = MaxReconnectAttempts
    /\ reconnectAttempts[id] = MaxReconnectAttempts
    /\ ~ReconnectPending(id) /\ probes[id] = 0

\* C33: after analyzeHlsStreamInfo completed on a running stream with a
\* segment directory, every field of streamInfo is set, to a detected
\* value or to a sentinel.
C33_EveryFieldSet ==
  [][\A id \in Ids :
       (\E fromPlaylist \in PlaylistFinds : \E fromProbe \in ProbeFinds :
          \E segments \in 0..MaxSegmentFiles :
            AnalyzeStreamInfo(id, fromPlaylist, fromProbe, segments))
         => \A f \in StreamInfoFields : streamInfo'[id][f] # "unset"]_vars

\* a cleanup pass removes the directory or the preview of id exactly when
\* id is not in the store, and touches nothing of a running stream
CleanupRemovesOrphansOnly(id) ==
  /\ hlsDir'[id] = "none" <=> hlsDir[id] = "none" \/ ~Exists(State, id)
  /\ screenshot'[id] <=> screenshot[id] /\ Exists(State, id)
  /\ streams[id].status = "running"
       => /\ segmentFiles'[id] = segmentFiles[id]
          /\ hlsDir'[id] = hlsDir[id]
          /\ screenshot'[id] = screenshot[id]

\* the smaller of the files that were there and the retention count
Retained(id) ==
  IF segmentFiles[id] < hlsListSize THEN segmentFiles[id] ELSE hlsListSize

\* C34 as stated: a cleanup pass removes exactly the orphans, leaves a
\* running stream alone, and for every id that is absent or not running
\* keeps at least the retention count of segment files (all of them when
\* there are fewer).
C34_KeepsRetentionForAbsent ==
  [][Cleanup =>
       \A id \in Ids :
         /\ CleanupRemovesOrphansOnly(id)
         /\ streams[id].status # "running"
              => segmentFiles'[id] >= Retained(id)]_vars

\* C34, amended: a cleanup pass removes exactly the orphans, directory and
\* segment files included, leaves a running stream alone, and for an id in
\* the store that is not running keeps the retention count of segment
\* files, or all of them when there are fewer.
C34_KeepsRetentionForStored ==
  [][Cleanup =>
       \A id \in Ids :
         /\ CleanupRemovesOrphansOnly(id)
         /\ ~Exists(State, id) => segmentFiles'[id] = 0
         /\ Exists(State, id) /\ streams[id].status # "running"
              => segmentFiles'[id] = Retained(id)]_vars

C34_TrimmedToRetention ==
  \E id \in Ids :
    /\ Exists(State, id)
    /\ streams[id].status = "stopped"
    /\ removedSegments[id] > 0
    /\ segmentFiles[id] = hlsListSize

\* C35: every code path that labels a height uses the thresholds 1080,
\* 720, 480 and 360 and the label '{height}p' below them.
C35_OneMappingOnEveryPath ==
  labelledBy # "none" =>
    label = IF height >= 1080 THEN "1080p"
            ELSE IF height >= 720 THEN "720p"
            ELSE IF height >= 480 THEN "480p"
            ELSE IF height >= 360 THEN "360p"
            ELSE ToString(height) \o "p"

\* C36: for every id at most one reconnect timer is pending or one probe
\* is in flight, and every pending reconnect timer is the one of the
\* reconnect-timer table.
C36_OneTrackedReconnect ==
  \A id \in Ids :
    /\ strayTimers[id] = 0
    /\ (IF reconnectTimers[id] = "pending" THEN 1 ELSE 0) + probes[id] <= 1


\* C37: every id with a subprocess handle in the process table has a record
\* in the store.
C37_HandlesOnlyForRecords ==
  \A id \in Ids : processes[id] # "none" => streams[id].status # "none"


(***************************************************************************)
(* The URL of a record under updateStream and the continuation of          *)
(* startStream.  analyzeHlsPlaylist is called with stream.url as it is     *)
(* when startStream runs and resolves to that URL or to a variant of it;   *)
(* the continuation stores what it resolved to.                            *)
(***************************************************************************)
MaxEdits == 2

\* the handler began a start: analyzeHlsPlaylist(stream.url) is pending
began(s, id) == s.starts[id]["fresh"] > starts[id]["fresh"]

RemoveAt(seq, i) == SubSeq(seq, 1, i - 1) \o SubSeq(seq, i + 1, Len(seq))

\* POST /api/streams/:id/start
StartStreamOfUrl(id) ==
  /\ Exists(State, id)
  /\ LET s == startStream(State, id)
     IN /\ InBounds(s)
        /\ Commit(s)
        /\ analysed' = [analysed EXCEPT ![id] =
                          IF began(s, id) THEN Append(@, storedUrl[id])
                          ELSE @]
  /\ UNCHANGED <<storedUrl, updatedUrl>>
  /\ UNCHANGED <<hist, errs, backoff, resolution, variants,
                 latestSegmentAge, streamInfo, segmentFiles, screenshot,
                 removedSegments, stoppedInGrace>>

\* PUT /api/streams/:id with another URL: updateStream stores it between
\* its stopStream and its startStream
UpdateUrl(id) ==
  /\ Exists(State, id)
  /\ updatedUrl[id] < MaxEdits
  /\ LET s == updateStream(State, id)
         new == EnteredUrl(updatedUrl[id] + 1)
     IN /\ InBounds(s)
        /\ Commit(s)
        /\ storedUrl' = [storedUrl EXCEPT ![id] = new]
        /\ analysed' = [analysed EXCEPT ![id] =
                          IF began(s, id) THEN Append(@, new) ELSE @]
  /\ updatedUrl' = [updatedUrl EXCEPT ![id] = @ + 1]
  /\ UNCHANGED <<hist, errs, backoff, resolution, variants,
                 latestSegmentAge, streamInfo, segmentFiles, screenshot,
                 removedSegments, stoppedInGrace>>

\* analyzeHlsPlaylist resolves for the i-th pending start of id and spawn
\* returns a subprocess: the continuation stores the URL it resolved to
ResolveUrl(id, i) ==
  /\ starts[id]["fresh"] > 0
  /\ i \in 1..Len(analysed[id])
  /\ LET r == analyzeHlsPlaylist(playlist[id], selectedVariantInfo)
         s == [State EXCEPT !.starts[id]["fresh"] = @ - 1]
     IN /\ InBounds(s)
        /\ Commit(launched(s, id, "fresh"))
        /\ storedUrl' = [storedUrl EXCEPT ![id] =
                           IF r.variant = 0 THEN analysed[id][i]
                           ELSE VariantOf(analysed[id][i])]
  /\ analysed' = [analysed EXCEPT ![id] = RemoveAt(@, i)]
  /\ UNCHANGED updatedUrl
  /\ UNCHANGED <<hist, errs, backoff, resolution, variants,
                 latestSegmentAge, streamInfo, segmentFiles, screenshot,
                 removedSegments, stoppedInGrace>>

NextUpdate ==
  \E id \in Ids :
    \/ StartStreamOfUrl(id)
    \/ UpdateUrl(id)
    \/ \E i \in 1..MaxInFlight : ResolveUrl(id, i)
    \/ StopStream(id)
    \/ ExitTerminated(id)

SpecUpdate == InitVariants /\ [][NextUpdate]_vars

\* C38: once no start of id awaits its variant resolution, the URL of the
\* record is the URL that updateStream stored last, or a variant resolved
\* from it.
C38_UpdatedUrlIsKept ==
  \A id \in Ids :
    streams[id].status # "none" /\ analysed[id] = <<>>
      => storedUrl[id].entered = updatedUrl[id]


\* C39: the exit of a subprocess of id that a later launch superseded, while
\* the subprocess of that launch is the registered one, leaves the status,
\* the entry of the process table and the reconnect state of id as they are.
C39_SupersededExitIsIgnored ==
  [][\A id \in Ids :
       /\ processes[id] = "live"
       /\ ExitUnregistered(id) \/ ExitTerminated(id)
       => /\ streams'[id].status = streams[id].status
          /\ processes'[id] = processes[id]
          /\ reconnectAttempts'[id] = reconnectAttempts[id]
          /\ reconnectTimers'[id] = reconnectTimers[id]
          /\ strayTimers'[id] = strayTimers[id]]_vars


(***************************************************************************)
(* stopStream during the delay of restartStream.  The user operations      *)
(* record whether a stop ran while a deferred start was pending.           *)
(***************************************************************************)
DoRecordingGrace(s, stopped) ==
  /\ InBounds(s)
  /\ Commit(s)
  /\ stoppedInGrace' = stopped
  /\ UNCHANGED <<hist, errs, backoff, resolution, variants, edits,
                 latestSegmentAge, streamInfo, segmentFiles, screenshot,
                 removedSegments>>

\* POST /api/streams/:id/start
UserStartStream(id) ==
  /\ Exists(State, id)
  /\ DoRecordingGrace(startStream(State, id),
                      [stoppedInGrace EXCEPT ![id] = FALSE])

\* POST /api/streams/:id/restart
UserRestartStream(id) ==
  /\ Exists(State, id)
  /\ DoRecordingGrace(restartStream(State, id),
                      [stoppedInGrace EXCEPT ![id] = FALSE])

\* POST /api/streams/:id/stop
UserStopStream(id) ==
  /\ Exists(State, id)
  /\ DoRecordingGrace(stopStream(State, id),
                      [stoppedInGrace EXCEPT
                         ![id] = @ \/ restartTimers[id] > 0])

NextGrace ==
  \E id \in Ids :
    \/ UserStartStream(id)
    \/ UserRestartStream(id)
    \/ UserStopStream(id)
    \/ RestartTimerFire(id)
    \/ StartLaunch(id, "fresh")
    \/ ExitRegistered(id)
    \/ ExitTerminated(id)
    \/ ReconnectTimerFire(id)
    \/ ProbeAvailable(id)

SpecGrace == InitAuto /\ [][NextGrace]_vars

\* C40: after a stop during the delay of restartStream, and without a later
\* start or restart by the user, the deferred start leaves the status
\* 'stopped' and begins no launch.
C40_StopInGraceIsKept ==
  [][\A id \in Ids :
       RestartTimerFire(id) /\ stoppedInGrace[id]
         => /\ streams'[id].status = "stopped"
            /\ starts'[id] = starts[id]]_vars


=============================================================================
